---- MODULE Spec2Model ----
(***************************************************************************)
(* A model of the appboot portal (src/app.py): the version bumper, the     *)
(* manifest store with its backups, the build handler and the preview      *)
(* fetch / read handlers.                                                  *)
(*                                                                         *)
(* Python strings are sequences of one-character strings.  Python values   *)
(* found in the manifest are tagged records (PyStr, PyInt, PyNone, and     *)
(* Absent for a key that is not in the dict).                              *)
(***************************************************************************)
EXTENDS Integers, Sequences, FiniteSets, TLC

VARIABLES
  \* ---- VersionBumper, called on its own
  bumpIn,        \* the argument `ver`
  bumpToday,     \* what date.today() answers
  bumpOut,       \* the returned string
  bumpOp,        \* which function was called: "none", "semver", "model"
  \* ---- the process and its data directory
  payloadExists, \* PAYLOAD.exists()
  cryptoOK,      \* AES and scrypt were imported (lines 31-36)
  manifest,      \* the file at APPBOOT_JSON
  backups,       \* the files appboot.json.bak.<ts>, by timestamp
  appbootZip,    \* the file appboot.zip: the manifest text it holds
  now,           \* the wall clock, in seconds
  encCalls,      \* how many times _aesgcm_encrypt has drawn a salt and a nonce
  writeTick,     \* history: flips at every completed _write_json
  build,         \* per request thread: where api_build is, and its locals
  \* ---- the preview workspace
  files,         \* the files on disk that the preview handlers can reach
  fetch,         \* per request thread: where api_preview_fetch is, and its locals
  fetchCalls,    \* how many fetches were started
  read           \* the last api_preview_read call and its answer

bumpVars == <<bumpIn, bumpToday, bumpOut, bumpOp>>
dataVars == <<payloadExists, cryptoOK, manifest, backups, appbootZip, now,
              encCalls, writeTick, build>>
previewVars == <<files, fetch, fetchCalls, read>>

vars == <<bumpIn, bumpToday, bumpOut, bumpOp, payloadExists, cryptoOK, manifest,
          backups, appbootZip, now, encCalls, writeTick, build, files, fetch,
          fetchCalls, read>>

(***************************************************************************)
(* Bounds                                                                  *)
(***************************************************************************)
\* longest free-form version string tried
MaxVerLen == 4
\* longest suffix tried after a ten-character date-like prefix
MaxSufLen == 1
\* the last second of the wall clock
MaxTime == 1
\* how many encryptions (builds that reach step 1) a run may hold
MaxEnc == 1
\* how many fetches a run may hold
MaxFetch == 2
\* longest name tried by api_preview_read
MaxNameLen == 3

(***************************************************************************)
(* Python values                                                           *)
(***************************************************************************)
PyStr(s) == [t |-> "str", s |-> s, n |-> 0]
PyInt(n) == [t |-> "int", s |-> <<>>, n |-> n]
PyNone == [t |-> "none", s |-> <<>>, n |-> 0]
Absent == [t |-> "absent", s |-> <<>>, n |-> 0]

(***************************************************************************)
(* Strings                                                                 *)
(***************************************************************************)
NL == "\n"
DigitChars == <<"0", "1", "2", "3", "4", "5", "6", "7", "8", "9">>
IsDigit(c) == \E i \in 1..10 : DigitChars[i] = c
DigitVal(c) == (CHOOSE i \in 1..10 : DigitChars[i] = c) - 1
IsSpace(c) == c \in {" ", NL}

\* the characters version strings are drawn from
VerChars == {"0", "1", "9", ".", "-", "a", " "}

RECURSIVE StringsUpTo(_, _)
StringsUpTo(chars, n) ==
  IF n = 0 THEN {<<>>}
  ELSE LET shorter == StringsUpTo(chars, n - 1)
       IN shorter \cup {Append(s, c) : s \in shorter, c \in chars}

\* str.strip()
RECURSIVE lstrip_space(_)
lstrip_space(s) ==
  IF s # <<>> /\ IsSpace(Head(s)) THEN lstrip_space(Tail(s)) ELSE s

RECURSIVE rstrip_space(_)
rstrip_space(s) ==
  IF s # <<>> /\ IsSpace(s[Len(s)])
  THEN rstrip_space(SubSeq(s, 1, Len(s) - 1)) ELSE s

strip(s) == rstrip_space(lstrip_space(s))

\* int(x) for a string of decimal digits
RECURSIVE int(_)
int(s) ==
  IF s = <<>> THEN 0
  ELSE 10 * int(SubSeq(s, 1, Len(s) - 1)) + DigitVal(s[Len(s)])

\* str(n) for n >= 0
RECURSIVE str(_)
str(n) ==
  IF n < 10 THEN <<DigitChars[n + 1]>>
  ELSE str(n \div 10) \o <<DigitChars[(n % 10) + 1]>>

\* s.split(sep) for a one-character separator
RECURSIVE split(_, _)
split(s, sep) ==
  IF \A i \in 1..Len(s) : s[i] # sep THEN <<s>>
  ELSE LET k == CHOOSE i \in 1..Len(s) :
                  s[i] = sep /\ \A j \in 1..(i - 1) : s[j] # sep
       IN <<SubSeq(s, 1, k - 1)>> \o split(SubSeq(s, k + 1, Len(s)), sep)

\* sep.join(parts)
RECURSIVE join(_, _)
join(parts, sep) ==
  IF parts = <<>> THEN <<>>
  ELSE IF Len(parts) = 1 THEN parts[1]
  ELSE parts[1] \o sep \o join(Tail(parts), sep)

AllDigits(s) == \A i \in 1..Len(s) : IsDigit(s[i])

(***************************************************************************)
(* VersionBumper                                                           *)
(***************************************************************************)
\* re.fullmatch(r'\d+(\.\d+)*', s)
fullmatch_semver(s) ==
  LET parts == split(s, ".")
  IN \A i \in 1..Len(parts) : parts[i] # <<>> /\ AllDigits(parts[i])

\* re.search(r'(.*?)(\d+)$', s): a match is a start i and a split j (offsets)
\* with s[i:j] free of newlines and s[j:] a non-empty run of digits; the
\* search takes the leftmost start and the lazy group its shortest extent.
search_match(s, i, j) ==
  /\ i <= j /\ j < Len(s)
  /\ \A k \in (i + 1)..j : s[k] # NL
  /\ \A k \in (j + 1)..Len(s) : IsDigit(s[k])

search_found(s) == \E i \in 0..Len(s), j \in 0..Len(s) : search_match(s, i, j)

search_start(s) ==
  CHOOSE i \in 0..Len(s) :
    /\ \E j \in 0..Len(s) : search_match(s, i, j)
    /\ \A i2 \in 0..(i - 1) : \A j \in 0..Len(s) : ~search_match(s, i2, j)

search_split(s) ==
  CHOOSE j \in 0..Len(s) :
    /\ search_match(s, search_start(s), j)
    /\ \A j2 \in 0..(j - 1) : ~search_match(s, search_start(s), j2)

search_head(s) == SubSeq(s, search_start(s) + 1, search_split(s))
search_num(s) == SubSeq(s, search_split(s) + 1, Len(s))

_bump_semver(ver) ==
  IF ver.t # "str" \/ strip(ver.s) = <<>> THEN <<"1", ".", "0", ".", "0">>
  ELSE LET s == strip(ver.s)
       IN IF fullmatch_semver(s)
          THEN LET texts == split(s, ".")
                   parts == [i \in 1..Len(texts) |-> int(texts[i])]
                   bumped == [parts EXCEPT ![Len(parts)] = @ + 1]
               IN join([i \in 1..Len(bumped) |-> str(bumped[i])], <<".">>)
          ELSE IF search_found(s)
          THEN search_head(s) \o str(int(search_num(s)) + 1)
          ELSE s \o <<".", "1">>

\* re.match(r'^\d{4}-\d{2}-\d{2}', s or '')
_is_date_prefix(s) ==
  /\ Len(s) >= 10
  /\ \A i \in {1, 2, 3, 4, 6, 7, 9, 10} : IsDigit(s[i])
  /\ s[5] = "-" /\ s[8] = "-"

\* zero-padded decimal, as date.isoformat() writes its fields
RECURSIVE zfill(_, _)
zfill(s, width) == IF Len(s) >= width THEN s ELSE zfill(<<"0">> \o s, width)

\* date.today().isoformat()
_today_str(today) ==
  zfill(str(today.y), 4) \o <<"-">> \o zfill(str(today.m), 2)
    \o <<"-">> \o zfill(str(today.d), 2)

\* `ver or ''`
or_empty(ver) ==
  IF ver.t = "str" THEN ver.s ELSE <<>>

\* a slip in the slice: the suffix taken one character late
_bump_model_version_late_suffix(ver, today) ==
  IF _is_date_prefix(or_empty(ver))
  THEN LET suf == IF ver.t = "str" /\ Len(ver.s) > 11
                  THEN SubSeq(ver.s, 12, Len(ver.s)) ELSE <<>>
       IN _today_str(today) \o suf
  ELSE _bump_semver(PyStr(or_empty(ver)))

\* a slip: an empty model version is given today's date
_bump_model_version_empty_is_today(ver, today) ==
  IF or_empty(ver) = <<>> THEN _today_str(today)
  ELSE IF _is_date_prefix(or_empty(ver))
  THEN LET suf == IF ver.t = "str" /\ Len(ver.s) > 10
                  THEN SubSeq(ver.s, 11, Len(ver.s)) ELSE <<>>
       IN _today_str(today) \o suf
  ELSE _bump_semver(PyStr(or_empty(ver)))

_bump_model_version(ver, today) ==
  IF _is_date_prefix(or_empty(ver))
  THEN LET suf == IF ver.t = "str" /\ Len(ver.s) > 10
                  THEN SubSeq(ver.s, 11, Len(ver.s)) ELSE <<>>
       IN _today_str(today) \o suf
  ELSE _bump_semver(PyStr(or_empty(ver)))

(***************************************************************************)
(* The manifest: a JSON document.  The keys the program touches are the    *)
(* two spellings of each version field, github and tokens.                 *)
(***************************************************************************)
GhAbsent == [t |-> "absent", token |-> Absent, token_enc |-> Absent]
GhDict(token, token_enc) == [t |-> "dict", token |-> token, token_enc |-> token_enc]
\* a value that is not a dict (a string, null)
GhOther == [t |-> "other", token |-> Absent, token_enc |-> Absent]
TokAbsent == [t |-> "absent", github_enc |-> Absent]
TokDict(github_enc) == [t |-> "dict", github_enc |-> github_enc]
TokOther == [t |-> "other", github_enc |-> Absent]

EmptyObj ==
  [appVersion |-> Absent, app_version |-> Absent,
   modelVersion |-> Absent, model_version |-> Absent,
   github |-> GhAbsent, tokens |-> TokAbsent]

\* what a path holds: nothing, text that is not JSON, JSON that is not an
\* object, or a JSON object
NoFile == [kind |-> "nofile", obj |-> EmptyObj]
InvalidFile == [kind |-> "invalid", obj |-> EmptyObj]
ListFile == [kind |-> "list", obj |-> EmptyObj]
DictFile(obj) == [kind |-> "dict", obj |-> obj]

Procs == {1, 2}
\* the thread that serves the requests when they come one at a time
SeqProcs == {1}

\* the envelope of the k-th encryption: the salt and the nonce are the k-th
\* draws of secrets.token_bytes
_aesgcm_encrypt(k) ==
  <<"aesgcm", ":", "v1", ":", "salt" \o ToString(k), ":",
    "nonce" \o ToString(k), ":", "ct", ":", "tag">>

\* the statements of _inject_encrypted_token after the encryption
\* a slip: the plaintext sibling is left in place
_inject_encrypted_token_keeps_plaintext(obj, enc) ==
  LET gh == IF obj.github.t = "absent" THEN GhDict(Absent, Absent) ELSE obj.github
      toks == IF obj.tokens.t = "absent" THEN TokDict(Absent) ELSE obj.tokens
  IN [obj EXCEPT !.github = [gh EXCEPT !.token_enc = PyStr(enc)],
                 !.tokens = [toks EXCEPT !.github_enc = PyStr(enc)]]

_inject_encrypted_token(obj, enc) ==
  LET gh == IF obj.github.t = "absent" THEN GhDict(Absent, Absent) ELSE obj.github
      toks == IF obj.tokens.t = "absent" THEN TokDict(Absent) ELSE obj.tokens
  IN [obj EXCEPT !.github = [gh EXCEPT !.token_enc = PyStr(enc),
                                       !.token = PyStr(<<>>)],
                 !.tokens = [toks EXCEPT !.github_enc = PyStr(enc)]]

\* gh['token_enc'] = enc or toks['github_enc'] = enc raises: the document, its
\* github or its tokens is not a dict
inject_raises(file) ==
  file.kind # "dict" \/ file.obj.github.t = "other" \/ file.obj.tokens.t = "other"

\* Python truth of a manifest value
truthy(v) == (v.t = "str" /\ v.s # <<>>) \/ (v.t = "int" /\ v.n # 0)

\* a.get(k1) or a.get(k2) or ''
first_truthy(a, b) ==
  IF truthy(a) THEN a ELSE IF truthy(b) THEN b ELSE PyStr(<<>>)

\* str(v) if v is not None else ''
py_str(v) ==
  IF v.t = "str" THEN v.s ELSE IF v.t = "int" THEN str(v.n) ELSE <<>>

_extract_versions(obj) ==
  [app |-> py_str(first_truthy(obj.appVersion, obj.app_version)),
   model |-> py_str(first_truthy(obj.modelVersion, obj.model_version))]

_set_versions(obj, app_v, model_v) ==
  LET a == IF obj.appVersion.t # "absent" \/ obj.app_version.t = "absent"
           THEN [obj EXCEPT !.appVersion = PyStr(app_v)]
           ELSE [obj EXCEPT !.app_version = PyStr(app_v)]
  IN IF a.modelVersion.t # "absent" \/ a.model_version.t = "absent"
     THEN [a EXCEPT !.modelVersion = PyStr(model_v)]
     ELSE [a EXCEPT !.model_version = PyStr(model_v)]

\* datetime.now().strftime('%Y%m%d-%H%M%S'): the clock to the second
timestamp(clock) == clock

\* date.today(): the run starts in the last second of 2024-03-05
today_at(clock) == [y |-> 2024, m |-> 3, d |-> IF clock = 0 THEN 5 ELSE 6]

\* _write_json(APPBOOT_JSON, obj)
_write_json(file) ==
  /\ backups' = IF manifest.kind # "nofile"
                THEN [backups EXCEPT ![timestamp(now)] = manifest]
                ELSE backups
  /\ manifest' = file
  /\ writeTick' = ~writeTick

(***************************************************************************)
(* api_build, step by step.  build[p] holds the thread's position and      *)
(* locals; before, enc, nEnc, wrote, zipped, nTool, tool and missing are   *)
(* history of the request.                                                 *)
(***************************************************************************)
NoRes == [ok |-> FALSE, status |-> 0, error |-> ""]
Fail(status, error) == [ok |-> FALSE, status |-> status, error |-> error]
NoVersions == [app |-> <<>>, model |-> <<>>]

IdleBuild ==
  [pc |-> "idle", bumpApp |-> FALSE, bumpModel |-> FALSE,
   ab |-> NoFile, before |-> NoFile, enc |-> <<>>, nEnc |-> 0,
   wrote |-> FALSE, zipped |-> FALSE, nTool |-> 0, tool |-> "none",
   missing |-> FALSE, cur |-> NoVersions, next |-> NoVersions, res |-> NoRes]

AllIdle == \A q \in Procs : build[q].pc = "idle"

Done(b, res) == [b EXCEPT !.pc = "done", !.res = res]

\* a slip: the manifest's existence is not checked before the work starts
BuildStart_unchecked_manifest(p, bumpApp, bumpModel) ==
  /\ build[p].pc = "idle"
  /\ encCalls < MaxEnc
  /\ LET b == [IdleBuild EXCEPT !.bumpApp = bumpApp, !.bumpModel = bumpModel,
                 !.missing = ~payloadExists \/ manifest.kind = "nofile"]
     IN build' = [build EXCEPT ![p] =
          IF ~payloadExists THEN Done(b, Fail(400, "payload.sh not found"))
          ELSE [b EXCEPT !.pc = "load"]]
  /\ UNCHANGED <<payloadExists, cryptoOK, manifest, backups, appbootZip, now,
                 encCalls, writeTick>>

\* lines 271-281: the two existence checks and the request body
BuildStart(p, bumpApp, bumpModel) ==
  /\ build[p].pc = "idle"
  /\ encCalls < MaxEnc
  /\ LET b == [IdleBuild EXCEPT !.bumpApp = bumpApp, !.bumpModel = bumpModel,
                 !.missing = ~payloadExists \/ manifest.kind = "nofile"]
     IN build' = [build EXCEPT ![p] =
          IF ~payloadExists THEN Done(b, Fail(400, "payload.sh not found"))
          ELSE IF manifest.kind = "nofile"
          THEN Done(b, Fail(400, "appboot.json not found"))
          ELSE [b EXCEPT !.pc = "load"]]
  /\ UNCHANGED <<payloadExists, cryptoOK, manifest, backups, appbootZip, now,
                 encCalls, writeTick>>

\* line 284: ab = _read_json(APPBOOT_JSON)
BuildLoad(p) ==
  /\ build[p].pc = "load"
  /\ build' = [build EXCEPT ![p] =
       IF manifest.kind \in {"nofile", "invalid"}
       THEN Done(@, Fail(500, "Failed to prep build"))
       ELSE [@ EXCEPT !.pc = "encrypt", !.ab = manifest, !.before = manifest]]
  /\ UNCHANGED <<payloadExists, cryptoOK, manifest, backups, appbootZip, now,
                 encCalls, writeTick>>

\* a slip: a failed encryption is swallowed and the build goes on with the
\* manifest as loaded
BuildEncrypt_failure_swallowed(p) ==
  /\ build[p].pc = "encrypt"
  /\ IF ~cryptoOK
     THEN /\ build' = [build EXCEPT ![p].pc = "bump"]
          /\ UNCHANGED encCalls
     ELSE /\ encCalls' = encCalls + 1
          /\ LET enc == _aesgcm_encrypt(encCalls + 1)
                 b == [build[p] EXCEPT !.enc = enc, !.nEnc = @ + 1]
             IN build' = [build EXCEPT ![p] =
                  IF inject_raises(b.ab)
                  THEN [b EXCEPT !.pc = "bump"]
                  ELSE [b EXCEPT !.pc = "bump",
                          !.ab = DictFile(_inject_encrypted_token(b.ab.obj, enc))]]
  /\ UNCHANGED <<payloadExists, cryptoOK, manifest, backups, appbootZip, now,
                 writeTick>>

\* lines 287-290: _inject_encrypted_token(ab, ...), encryption first
BuildEncrypt(p) ==
  /\ build[p].pc = "encrypt"
  /\ IF ~cryptoOK
     THEN /\ build' = [build EXCEPT ![p] = Done(@, Fail(500, "Encrypt token failed"))]
          /\ UNCHANGED encCalls
     ELSE /\ encCalls' = encCalls + 1
          /\ LET enc == _aesgcm_encrypt(encCalls + 1)
                 b == [build[p] EXCEPT !.enc = enc, !.nEnc = @ + 1]
             IN build' = [build EXCEPT ![p] =
                  IF inject_raises(b.ab)
                  THEN Done(b, Fail(500, "Encrypt token failed"))
                  ELSE [b EXCEPT !.pc = "bump",
                          !.ab = DictFile(_inject_encrypted_token(b.ab.obj, enc))]]
  /\ UNCHANGED <<payloadExists, cryptoOK, manifest, backups, appbootZip, now,
                 writeTick>>

\* lines 293-301: bump the versions and persist; the write may raise (a full
\* disk, a read-only directory) before anything is written
BuildPersist(p) ==
  /\ build[p].pc = "bump"
  /\ \E raises \in BOOLEAN :
       IF raises
       THEN /\ build' = [build EXCEPT ![p] = Done(@, Fail(500, "Failed to prep build"))]
            /\ UNCHANGED <<manifest, backups, writeTick>>
       ELSE LET b == build[p]
                cur == _extract_versions(b.ab.obj)
                next_app == IF b.bumpApp THEN _bump_semver(PyStr(cur.app)) ELSE cur.app
                next_model == IF b.bumpModel
                              THEN _bump_model_version(PyStr(cur.model), today_at(now))
                              ELSE cur.model
                ab == DictFile(_set_versions(b.ab.obj, next_app, next_model))
            IN /\ _write_json(ab)
               /\ build' = [build EXCEPT ![p] =
                    [b EXCEPT !.pc = "zip", !.ab = ab, !.wrote = TRUE, !.cur = cur,
                              !.next = [app |-> next_app, model |-> next_model]]]
  /\ UNCHANGED <<payloadExists, cryptoOK, appbootZip, now, encCalls>>

\* lines 304-310: appboot.zip, holding the manifest file as it is on disk
BuildZip(p) ==
  /\ build[p].pc = "zip"
  /\ \E raises \in BOOLEAN :
       IF raises \/ manifest.kind = "nofile"
       THEN /\ build' = [build EXCEPT ![p] = Done(@, Fail(500, "Failed to prep build"))]
            /\ UNCHANGED appbootZip
       ELSE /\ appbootZip' = manifest
            /\ build' = [build EXCEPT ![p] = [@ EXCEPT !.pc = "tool", !.zipped = TRUE]]
  /\ UNCHANGED <<payloadExists, cryptoOK, manifest, backups, now, encCalls, writeTick>>

ToolOutcomes == {"exit0", "nonzero", "launch_error"}

\* what api_build answers after subprocess.run (lines 319-335)
\* a slip: the answer says ok whenever the tool could be launched
tool_result_ok_if_launched(outcome) ==
  IF outcome = "launch_error" THEN Fail(500, "launch")
  ELSE [ok |-> TRUE, status |-> 200, error |-> ""]

tool_result(outcome) ==
  IF outcome = "exit0" THEN [ok |-> TRUE, status |-> 200, error |-> ""]
  ELSE IF outcome = "nonzero" THEN Fail(500, "")
  ELSE Fail(500, "launch")

\* lines 313-335: run payload.sh and answer
BuildTool(p) ==
  /\ build[p].pc = "tool"
  /\ \E outcome \in ToolOutcomes :
       build' = [build EXCEPT ![p] =
         Done([@ EXCEPT !.nTool = @ + 1, !.tool = outcome], tool_result(outcome))]
  /\ UNCHANGED <<payloadExists, cryptoOK, manifest, backups, appbootZip, now,
                 encCalls, writeTick>>

\* the response has been sent; the thread takes the next request
BuildReturn(p) ==
  /\ build[p].pc = "done"
  /\ build' = [build EXCEPT ![p] = IdleBuild]
  /\ UNCHANGED <<payloadExists, cryptoOK, manifest, backups, appbootZip, now,
                 encCalls, writeTick>>

\* api_save with name appboot.json and a text that is a JSON object
\* (lines 255-267)
Save(obj) ==
  /\ _write_json(DictFile(obj))
  /\ UNCHANGED <<payloadExists, cryptoOK, appbootZip, now, encCalls, build>>

\* a second passes
Tick ==
  /\ now < MaxTime
  /\ now' = now + 1
  /\ UNCHANGED <<payloadExists, cryptoOK, manifest, backups, appbootZip,
                 encCalls, writeTick, build>>

\* the data directory while it is not exercised
QuietData ==
  /\ cryptoOK = TRUE
  /\ manifest = NoFile
  /\ backups = [ts \in 0..MaxTime |-> NoFile]
  /\ appbootZip = NoFile
  /\ now = 0
  /\ encCalls = 0
  /\ writeTick = FALSE
  /\ build = [p \in Procs |-> IdleBuild]

(***************************************************************************)
(* Paths and the file system.  A name is a string whose characters are the *)
(* separators "/", "\", ".", " " and runs of letters kept whole ("x",      *)
(* "json"); a path is the sequence of its components below the root.       *)
(***************************************************************************)
DATA_DIR == << <<"data">>, <<"js">> >>
PREVIEW_DIR == DATA_DIR \o << <<"_preview">> >>
UNZIP_DIR == PREVIEW_DIR \o << <<"unzipped">> >>
ENC_PATH == PREVIEW_DIR \o << <<"cloud", ".", "app", ".", "zip", ".", "enc">> >>
ZIP_PATH == PREVIEW_DIR \o << <<"cloud", ".", "app", ".", "zip">> >>

IsPrefix(dir, path) == Len(dir) <= Len(path) /\ SubSeq(path, 1, Len(dir)) = dir
IsUnder(path, dir) == Len(dir) < Len(path) /\ IsPrefix(dir, path)

\* the components pathlib keeps of a string: empty ones and "." are dropped,
\* ".." is kept
path_parts(name) ==
  SelectSeq(split(name, "/"), LAMBDA c : c # <<>> /\ c # <<".">>)

\* base / name: an absolute name replaces the base
path_join(base, name) ==
  IF name # <<>> /\ name[1] = "/" THEN path_parts(name)
  ELSE base \o path_parts(name)

\* str(path)
path_str(path) ==
  IF path = <<>> THEN <<"/">>
  ELSE <<"/">> \o join(path, <<"/">>)

\* the file the operating system reaches by a path: ".." steps to the parent
RECURSIVE os_resolve(_, _)
os_resolve(seen, rest) ==
  IF rest = <<>> THEN seen
  ELSE IF Head(rest) = <<".", ".">>
  THEN os_resolve(IF seen = <<>> THEN <<>> ELSE SubSeq(seen, 1, Len(seen) - 1),
                  Tail(rest))
  ELSE os_resolve(Append(seen, Head(rest)), Tail(rest))

\* s.endswith('.json')
endswith_json(s) == Len(s) >= 2 /\ s[Len(s) - 1] = "." /\ s[Len(s)] = "json"

\* s.lower()
lower(s) == [i \in 1..Len(s) |-> IF s[i] = "JSON" THEN "json" ELSE s[i]]

\* name.lstrip('/')
RECURSIVE lstrip_slash(_)
lstrip_slash(s) ==
  IF s # <<>> /\ Head(s) = "/" THEN lstrip_slash(Tail(s)) ELSE s

\* name.replace('\\', '/')
replace_backslash(s) == [i \in 1..Len(s) |-> IF s[i] = "\\" THEN "/" ELSE s[i]]

\* '..' in name
has_dotdot(s) == \E i \in 1..(Len(s) - 1) : s[i] = "." /\ s[i + 1] = "."

\* what a file holds: which fetch wrote it (0: it was there before), whether
\* it is valid JSON and, for an archive, its entries
FileData(gen, valid, entries) == [gen |-> gen, valid |-> valid, entries |-> entries]

HasFile(fs, path) == \E f \in fs : f.path = path
FileAt(fs, path) == CHOOSE f \in fs : f.path = path
IsDir(fs, path) == IsPrefix(path, UNZIP_DIR) \/ \E f \in fs : IsUnder(f.path, path)
write_file(fs, path, data) ==
  {f \in fs : f.path # path} \cup {[path |-> path, data |-> data]}
\* shutil.rmtree(dir, ignore_errors=True)
rmtree(fs, dir) == {f \in fs : ~IsUnder(f.path, dir)}

\* the loop of lines 378-384: where each entry is written
extract_target(name) == os_resolve(<<>>, path_join(UNZIP_DIR, name))

extracts(entry) == endswith_json(lower(entry.name))

RECURSIVE extract_entries(_, _, _)
extract_entries(fs, entries, gen) ==
  IF entries = <<>> THEN fs
  ELSE extract_entries(
         IF extracts(Head(entries))
         THEN write_file(fs, extract_target(Head(entries).name),
                         FileData(gen, Head(entries).valid, <<>>))
         ELSE fs,
         Tail(entries), gen)

extracted_paths(entries) ==
  {extract_target(entries[i].name) : i \in {j \in 1..Len(entries) : extracts(entries[j])}}

(***************************************************************************)
(* api_preview_fetch, step by step, and api_preview_read                   *)
(***************************************************************************)
NoPath == [set |-> FALSE, path |-> <<>>]
APath(path) == [set |-> TRUE, path |-> path]

IdleFetch ==
  [pc |-> "idle", gen |-> 0, tool |-> "none", entries |-> <<>>,
   extracted |-> {}, res |-> NoRes]

NoRead ==
  [called |-> FALSE, name |-> <<>>, status |-> 0, error |-> "",
   probed |-> NoPath, opened |-> NoPath, data |-> FileData(0, FALSE, <<>>)]

\* no preview request is being served
AllFetchIdle == ~read.called /\ \A q \in Procs : fetch[q].pc = "idle"

\* line 342 and the request body
FetchStart(p) ==
  /\ fetch[p].pc = "idle"
  /\ fetchCalls < MaxFetch
  /\ fetchCalls' = fetchCalls + 1
  /\ fetch' = [fetch EXCEPT ![p] =
       IF ~payloadExists
       THEN Done([IdleFetch EXCEPT !.gen = fetchCalls + 1],
                 Fail(400, "payload.sh not found"))
       ELSE [IdleFetch EXCEPT !.pc = "clear", !.gen = fetchCalls + 1]]
  /\ UNCHANGED <<files, read>>

\* line 351: _clear_preview_dirs()
FetchClear(p) ==
  /\ fetch[p].pc = "clear"
  /\ files' = rmtree(files, PREVIEW_DIR)
  /\ fetch' = [fetch EXCEPT ![p].pc = "download"]
  /\ UNCHANGED <<fetchCalls, read>>

\* a slip: the destination file is created before the URL is opened, and is
\* left behind when the download raises
FetchDownload_leaves_file(p) ==
  /\ fetch[p].pc = "download"
  /\ \E raises \in BOOLEAN :
       /\ files' = write_file(files, ENC_PATH, FileData(fetch[p].gen, FALSE, <<>>))
       /\ fetch' = [fetch EXCEPT ![p] =
            IF raises THEN Done(@, Fail(500, "download error"))
            ELSE [@ EXCEPT !.pc = "decrypt"]]
  /\ UNCHANGED <<fetchCalls, read>>

\* line 356: _download(url, enc_path); urlopen or read may raise
FetchDownload(p) ==
  /\ fetch[p].pc = "download"
  /\ \E raises \in BOOLEAN :
       IF raises
       THEN /\ fetch' = [fetch EXCEPT ![p] = Done(@, Fail(500, "download error"))]
            /\ UNCHANGED files
       ELSE /\ files' = write_file(files, ENC_PATH, FileData(fetch[p].gen, FALSE, <<>>))
            /\ fetch' = [fetch EXCEPT ![p].pc = "decrypt"]
  /\ UNCHANGED <<fetchCalls, read>>

Entry(name, valid) == [name |-> name, valid |-> valid]

\* the archives payload.sh --decrypt may produce
Archives ==
  { << Entry(<<"x", ".", "json">>, TRUE) >>,
    << Entry(<<"d", "/", "x", ".", "json">>, TRUE), Entry(<<"x", ".", "txt">>, FALSE) >>,
    << Entry(<<".", ".", "/", "x", ".", "json">>, TRUE) >>,
    << Entry(<<"/", "x", ".", "json">>, TRUE) >>,
    << Entry(<<"x", ".", "JSON">>, TRUE), Entry(<<"x", ".", "json">>, FALSE) >> }

DecryptOutcomes == {"exit0", "nonzero", "hang", "launch_error"}

\* line 362, the child process: it exits 0 having written the archive, exits
\* non-zero, cannot be launched, or is still running after 120 seconds; a
\* child that fails or hangs may have written its output file already
FetchDecryptRun(p) ==
  /\ fetch[p].pc = "decrypt"
  /\ \E outcome \in DecryptOutcomes, archive \in Archives, wrote \in BOOLEAN :
       /\ outcome = "exit0" => wrote
       /\ outcome = "launch_error" => ~wrote
       /\ fetch' = [fetch EXCEPT ![p] = [@ EXCEPT !.pc = "decrypting", !.tool = outcome]]
       /\ files' = IF wrote
                   THEN write_file(files, ZIP_PATH, FileData(fetch[p].gen, FALSE, archive))
                   ELSE files
  /\ UNCHANGED <<fetchCalls, read>>

\* lines 361-372: what subprocess.run(..., timeout=120) gives back
\* a slip: no timeout is passed, and a hanging child is waited for for ever
FetchDecryptEnd_no_timeout(p) ==
  /\ fetch[p].pc = "decrypting"
  /\ fetch[p].tool # "hang"
  /\ fetch' = [fetch EXCEPT ![p] =
       IF fetch[p].tool = "nonzero" THEN Done(@, Fail(500, "decrypt failed"))
       ELSE IF fetch[p].tool = "launch_error" THEN Done(@, Fail(500, "launch error"))
       ELSE [@ EXCEPT !.pc = "extract"]]
  /\ UNCHANGED <<files, fetchCalls, read>>

FetchDecryptEnd(p) ==
  /\ fetch[p].pc = "decrypting"
  /\ fetch' = [fetch EXCEPT ![p] =
       IF fetch[p].tool = "hang" THEN Done(@, Fail(500, "decrypt timeout"))
       ELSE IF fetch[p].tool = "nonzero" THEN Done(@, Fail(500, "decrypt failed"))
       ELSE IF fetch[p].tool = "launch_error" THEN Done(@, Fail(500, "launch error"))
       ELSE [@ EXCEPT !.pc = "extract"]]
  /\ UNCHANGED <<files, fetchCalls, read>>

\* lines 375-389: list every entry, extract the .json ones
FetchExtract(p) ==
  /\ fetch[p].pc = "extract"
  /\ IF ~HasFile(files, ZIP_PATH)
     THEN /\ fetch' = [fetch EXCEPT ![p] = Done(@, Fail(500, "no archive"))]
          /\ UNCHANGED files
     ELSE LET entries == FileAt(files, ZIP_PATH).data.entries
          IN /\ files' = extract_entries(files, entries, fetch[p].gen)
             /\ fetch' = [fetch EXCEPT ![p] =
                  Done([@ EXCEPT !.entries = entries,
                                 !.extracted = extracted_paths(entries)],
                       [ok |-> TRUE, status |-> 200, error |-> ""])]
  /\ UNCHANGED <<fetchCalls, read>>

FetchReturn(p) ==
  /\ fetch[p].pc = "done"
  /\ fetch' = [fetch EXCEPT ![p] = IdleFetch]
  /\ UNCHANGED <<files, fetchCalls, read>>

\* api_preview_read (lines 393-407)
Read(raw) ==
  LET name == replace_backslash(lstrip_slash(strip(raw)))
      path == path_join(UNZIP_DIR, name)
      file == os_resolve(<<>>, path)
      r == [NoRead EXCEPT !.called = TRUE, !.name = raw]
  IN /\ ~read.called
     /\ read' =
          IF name = <<>> \/ has_dotdot(name)
          THEN [r EXCEPT !.status = 400, !.error = "invalid name"]
          ELSE IF ~(HasFile(files, file) \/ IsDir(files, file))
                    \/ ~endswith_json(path_str(path))
          THEN [r EXCEPT !.status = 404, !.error = "not found", !.probed = APath(file)]
          ELSE IF ~HasFile(files, file) \/ ~FileAt(files, file).data.valid
          THEN [r EXCEPT !.status = 400, !.error = "read or parse error",
                         !.probed = APath(file), !.opened = APath(file)]
          ELSE [r EXCEPT !.status = 200, !.probed = APath(file),
                         !.opened = APath(file), !.data = FileAt(files, file).data]
     /\ UNCHANGED <<files, fetch, fetchCalls>>

\* the answer has been sent
ReadReturn ==
  /\ read.called
  /\ read' = NoRead
  /\ UNCHANGED <<files, fetch, fetchCalls>>

NameTokens == {"/", "\\", ".", " ", "x", "json"}

EntryNames == UNION {{a[i].name : i \in 1..Len(a)} : a \in Archives}

\* a name as a client that separates with backslashes writes it
with_backslashes(s) == [i \in 1..Len(s) |-> IF s[i] = "/" THEN "\\" ELSE s[i]]
\* the names asked for: every short name, the names of the archive entries,
\* those names written with backslashes, and two names outside the workspace
\* two names that point outside the workspace
SECRET_NAME == <<".", ".", "/", "secret", ".", "json">>
PASSWD_NAME == <<"/", "etc", "/", "passwd">>
ReadNames ==
  StringsUpTo(NameTokens, MaxNameLen) \cup EntryNames
    \cup {with_backslashes(n) : n \in EntryNames}
    \cup {SECRET_NAME, PASSWD_NAME}

\* a file outside the data directory, there before the program runs
OUTSIDE_FILE == << <<"x", ".", "json">> >>

QuietPreview ==
  /\ files = {[path |-> OUTSIDE_FILE, data |-> FileData(0, TRUE, <<>>)]}
  /\ fetch = [p \in Procs |-> IdleFetch]
  /\ fetchCalls = 0
  /\ read = NoRead

InitPreview ==
  /\ bumpIn = PyNone
  /\ bumpToday = today_at(0)
  /\ bumpOut = <<>>
  /\ bumpOp = "none"
  /\ payloadExists \in BOOLEAN
  /\ QuietData
  /\ QuietPreview

\* requests are handled one at a time
NextPreview ==
  \/ \E p \in SeqProcs :
       AllFetchIdle /\ FetchStart(p) /\ UNCHANGED <<bumpVars, dataVars>>
  \/ \E p \in SeqProcs : FetchClear(p) /\ UNCHANGED <<bumpVars, dataVars>>
  \/ \E p \in SeqProcs : FetchDownload(p) /\ UNCHANGED <<bumpVars, dataVars>>
  \/ \E p \in SeqProcs : FetchDecryptRun(p) /\ UNCHANGED <<bumpVars, dataVars>>
  \/ \E p \in SeqProcs : FetchDecryptEnd(p) /\ UNCHANGED <<bumpVars, dataVars>>
  \/ \E p \in SeqProcs : FetchExtract(p) /\ UNCHANGED <<bumpVars, dataVars>>
  \/ \E p \in SeqProcs : FetchReturn(p) /\ UNCHANGED <<bumpVars, dataVars>>
  \/ \E raw \in ReadNames :
       AllFetchIdle /\ Read(raw) /\ UNCHANGED <<bumpVars, dataVars>>
  \/ ReadReturn /\ UNCHANGED <<bumpVars, dataVars>>

SpecPreview == InitPreview /\ [][NextPreview]_vars

\* subprocess.run(..., timeout=120) returns or raises once the child has
\* exited or the 120 seconds have passed
LiveSpecPreview ==
  SpecPreview
    /\ \A p \in SeqProcs :
         WF_vars(FetchDecryptEnd(p) /\ UNCHANGED <<bumpVars, dataVars>>)

\* payload.sh is installed on the host, or removed from it, between two
\* requests: PAYLOAD.exists() is asked anew by every request (line 342)
PayloadChange ==
  /\ AllFetchIdle
  /\ payloadExists' = ~payloadExists
  /\ UNCHANGED <<bumpVars, cryptoOK, manifest, backups, appbootZip, now,
                 encCalls, writeTick, build, previewVars>>

NextPreviewHost ==
  \/ NextPreview
  \/ PayloadChange

SpecPreviewHost == InitPreview /\ [][NextPreviewHost]_vars


\* two fetches on request threads of their own (app.run, line 426): their
\* steps interleave, and nothing guards the preview directory
InitFetchRace ==
  /\ bumpIn = PyNone
  /\ bumpToday = today_at(0)
  /\ bumpOut = <<>>
  /\ bumpOp = "none"
  /\ payloadExists = TRUE
  /\ QuietData
  /\ QuietPreview

NextFetchRace ==
  \/ \E p \in Procs : FetchStart(p) /\ UNCHANGED <<bumpVars, dataVars>>
  \/ \E p \in Procs : FetchClear(p) /\ UNCHANGED <<bumpVars, dataVars>>
  \/ \E p \in Procs : FetchDownload(p) /\ UNCHANGED <<bumpVars, dataVars>>
  \/ \E p \in Procs : FetchDecryptRun(p) /\ UNCHANGED <<bumpVars, dataVars>>
  \/ \E p \in Procs : FetchDecryptEnd(p) /\ UNCHANGED <<bumpVars, dataVars>>
  \/ \E p \in Procs : FetchExtract(p) /\ UNCHANGED <<bumpVars, dataVars>>
  \/ \E p \in Procs : FetchReturn(p) /\ UNCHANGED <<bumpVars, dataVars>>

SpecFetchRace == InitFetchRace /\ [][NextFetchRace]_vars

(***************************************************************************)
(* The manifests a run starts from, and those api_save writes              *)
(***************************************************************************)
V19 == <<"1", ".", "9">>
V20 == <<"2", ".", "0">>
VDate == <<"2", "0", "2", "4", "-", "0", "1", "-", "0", "1", "-", "b">>
V7 == <<"7">>
OldEnvelope == <<"aesgcm", ":", "v1", ":", "salt0", ":", "nonce0", ":", "ct", ":", "tag">>
PlainToken == <<"g", "h", "p">>

BaseObj ==
  [EmptyObj EXCEPT !.appVersion = PyStr(V19), !.modelVersion = PyStr(VDate)]

\* (camelCase value, snake_case value) of one version field
AppPairs ==
  { <<PyStr(V19), Absent>>, <<Absent, PyStr(V19)>>, <<PyStr(V19), PyStr(V20)>>,
    <<PyStr(<<>>), PyStr(V20)>>, <<Absent, Absent>>, <<PyInt(5), Absent>>,
    <<PyInt(0), Absent>>, <<PyNone, Absent>>, <<PyNone, PyStr(V20)>>,
    <<Absent, PyInt(5)>> }

ModelPairs ==
  { <<PyStr(VDate), Absent>>, <<Absent, PyStr(VDate)>>, <<PyStr(V7), PyStr(VDate)>>,
    <<PyStr(<<>>), PyStr(V7)>>, <<Absent, Absent>>, <<PyInt(7), Absent>> }

GithubValues ==
  { GhAbsent, GhOther, GhDict(Absent, Absent), GhDict(PyStr(PlainToken), Absent),
    GhDict(PyStr(PlainToken), PyStr(OldEnvelope)) }

TokensValues == { TokAbsent, TokOther, TokDict(Absent), TokDict(PyStr(OldEnvelope)) }

InitObjs ==
  {[BaseObj EXCEPT !.appVersion = a[1], !.app_version = a[2]] : a \in AppPairs}
    \cup {[BaseObj EXCEPT !.modelVersion = m[1], !.model_version = m[2]] :
            m \in ModelPairs}
    \cup {[BaseObj EXCEPT !.github = g, !.tokens = k] :
            g \in GithubValues, k \in TokensValues}
    \cup {EmptyObj}

SaveObjs ==
  { [EmptyObj EXCEPT !.app_version = PyStr(V20),
                     !.github = GhDict(PyStr(PlainToken), Absent)] }

InitBuild ==
  /\ bumpIn = PyNone
  /\ bumpToday = today_at(0)
  /\ bumpOut = <<>>
  /\ bumpOp = "none"
  /\ payloadExists \in BOOLEAN
  /\ cryptoOK \in BOOLEAN
  /\ manifest \in {NoFile, InvalidFile, ListFile} \cup {DictFile(o) : o \in InitObjs}
  /\ backups = [ts \in 0..MaxTime |-> NoFile]
  /\ appbootZip = NoFile
  /\ now = 0
  /\ encCalls = 0
  /\ writeTick = FALSE
  /\ build = [p \in Procs |-> IdleBuild]
  /\ QuietPreview

\* requests are handled one at a time
NextBuild ==
  \/ \E p \in SeqProcs, bumpApp \in BOOLEAN, bumpModel \in BOOLEAN :
       AllIdle /\ BuildStart(p, bumpApp, bumpModel) /\ UNCHANGED <<bumpVars, previewVars>>
  \/ \E p \in SeqProcs : BuildLoad(p) /\ UNCHANGED <<bumpVars, previewVars>>
  \/ \E p \in SeqProcs : BuildEncrypt(p) /\ UNCHANGED <<bumpVars, previewVars>>
  \/ \E p \in SeqProcs : BuildPersist(p) /\ UNCHANGED <<bumpVars, previewVars>>
  \/ \E p \in SeqProcs : BuildZip(p) /\ UNCHANGED <<bumpVars, previewVars>>
  \/ \E p \in SeqProcs : BuildTool(p) /\ UNCHANGED <<bumpVars, previewVars>>
  \/ \E p \in SeqProcs : BuildReturn(p) /\ UNCHANGED <<bumpVars, previewVars>>
  \/ \E obj \in SaveObjs : AllIdle /\ Save(obj) /\ UNCHANGED <<bumpVars, previewVars>>
  \/ Tick /\ UNCHANGED <<bumpVars, previewVars>>

SpecBuild == InitBuild /\ [][NextBuild]_vars

\* app.run serves each request on a thread of its own (line 426): the steps
\* of two builds interleave, and nothing guards the manifest
InitBuildRace ==
  /\ bumpIn = PyNone
  /\ bumpToday = today_at(0)
  /\ bumpOut = <<>>
  /\ bumpOp = "none"
  /\ payloadExists = TRUE
  /\ cryptoOK = TRUE
  /\ manifest = DictFile(BaseObj)
  /\ backups = [ts \in 0..MaxTime |-> NoFile]
  /\ appbootZip = NoFile
  /\ now = 0
  /\ encCalls = 0
  /\ writeTick = FALSE
  /\ build = [p \in Procs |-> IdleBuild]
  /\ QuietPreview

NextBuildRace ==
  \/ \E p \in Procs, bumpApp \in BOOLEAN, bumpModel \in BOOLEAN :
       BuildStart(p, bumpApp, bumpModel) /\ UNCHANGED <<bumpVars, previewVars>>
  \/ \E p \in Procs : BuildLoad(p) /\ UNCHANGED <<bumpVars, previewVars>>
  \/ \E p \in Procs : BuildEncrypt(p) /\ UNCHANGED <<bumpVars, previewVars>>
  \/ \E p \in Procs : BuildPersist(p) /\ UNCHANGED <<bumpVars, previewVars>>
  \/ \E p \in Procs : BuildZip(p) /\ UNCHANGED <<bumpVars, previewVars>>
  \/ \E p \in Procs : BuildTool(p) /\ UNCHANGED <<bumpVars, previewVars>>
  \/ \E p \in Procs : BuildReturn(p) /\ UNCHANGED <<bumpVars, previewVars>>
  \/ Tick /\ UNCHANGED <<bumpVars, previewVars>>

SpecBuildRace == InitBuildRace /\ [][NextBuildRace]_vars

(***************************************************************************)
(* The bumper called on its own: an argument and a date are drawn, then    *)
(* one of the two functions is applied.                                    *)
(***************************************************************************)
Dates == {[y |-> 2024, m |-> 3, d |-> 5], [y |-> 2025, m |-> 12, d |-> 31],
          [y |-> 987, m |-> 1, d |-> 1]}

DatePrefixes ==
  { <<"2", "0", "2", "4", "-", "0", "1", "-", "0", "1">>,
    <<"9", "9", "9", "9", "-", "9", "9", "-", "9", "9">>,
    <<"2", "0", "2", "4", "-", "0", "1", "-", "0", "a">>,
    <<"2", "0", "2", "4", ".", "0", "1", ".", "0", "1">>,
    <<"2", "0", "2", "-", "0", "1", "-", "0", "1", "1">>,
    <<" ", "2", "0", "2", "4", "-", "0", "1", "-", "0">> }

BumpInputs ==
  {PyStr(s) : s \in StringsUpTo(VerChars, MaxVerLen)}
    \cup {PyStr(p \o s) : p \in DatePrefixes, s \in StringsUpTo(VerChars, MaxSufLen)}
    \cup {PyNone, PyInt(0), PyInt(7)}

InitBump ==
  /\ bumpIn \in BumpInputs
  /\ bumpToday \in Dates
  /\ bumpOut = <<>>
  /\ bumpOp = "none"
  /\ payloadExists = TRUE
  /\ QuietData
  /\ QuietPreview

CallBumpSemver ==
  /\ bumpOp = "none"
  /\ bumpOut' = _bump_semver(bumpIn)
  /\ bumpOp' = "semver"
  /\ UNCHANGED <<bumpIn, bumpToday>>
  /\ UNCHANGED <<dataVars, previewVars>>

CallBumpModelVersion ==
  /\ bumpOp = "none"
  /\ bumpOut' = _bump_model_version(bumpIn, bumpToday)
  /\ bumpOp' = "model"
  /\ UNCHANGED <<bumpIn, bumpToday>>
  /\ UNCHANGED <<dataVars, previewVars>>

NextBump == CallBumpSemver \/ CallBumpModelVersion

SpecBump == InitBump /\ [][NextBump]_vars

(***************************************************************************)
(* Claims about the VersionBumper                                          *)
(***************************************************************************)
\* the trimmed text matches ^\d+(\.\d+)*$, stated on its characters
C8_IsDotted(s) ==
  /\ s # <<>>
  /\ \A i \in 1..Len(s) : IsDigit(s[i]) \/ s[i] = "."
  /\ IsDigit(s[1]) /\ IsDigit(s[Len(s)])
  /\ \A i \in 1..(Len(s) - 1) : ~(s[i] = "." /\ s[i + 1] = ".")

\* where the run of digits that ends s starts (Len(s) + 1 when there is none)
C8_TailStart(s) ==
  CHOOSE k \in 1..(Len(s) + 1) :
    /\ \A i \in k..Len(s) : IsDigit(s[i])
    /\ k > 1 => ~IsDigit(s[k - 1])

C8_Expected(s, out) ==
  IF s = <<>> THEN out = <<"1", ".", "0", ".", "0">>
  ELSE IF C8_IsDotted(s)
  THEN LET c == split(s, ".")
           o == split(out, ".")
       IN /\ Len(o) = Len(c)
          /\ \A i \in 1..(Len(c) - 1) : o[i] = c[i]
          /\ o[Len(c)] = str(int(c[Len(c)]) + 1)
  ELSE IF C8_TailStart(s) <= Len(s)
  THEN out = SubSeq(s, 1, C8_TailStart(s) - 1)
               \o str(int(SubSeq(s, C8_TailStart(s), Len(s))) + 1)
  ELSE out = s \o <<".", "1">>

\* C8: _bump_semver returns "1.0.0" for an empty or non-string argument; for
\* a trimmed argument matching ^\d+(\.\d+)*$ the same components with the
\* last one incremented and every other component unchanged character for
\* character; otherwise, for an argument ending in a run of digits, the
\* leading text verbatim followed by the trailing integer plus 1; otherwise
\* the argument with ".1" appended.
C8_BumpSemverAsClaimed ==
  bumpOp = "semver" =>
    C8_Expected(IF bumpIn.t = "str" THEN strip(bumpIn.s) ELSE <<>>, bumpOut)

\* C9: _bump_model_version returns today's ISO date followed by the
\* characters of the argument from offset 10 onward, unchanged, when the
\* argument starts with YYYY-MM-DD, and what _bump_semver returns otherwise.
C9_StartsWithDate(s) ==
  /\ Len(s) >= 10
  /\ AllDigits(SubSeq(s, 1, 4)) /\ s[5] = "-"
  /\ AllDigits(SubSeq(s, 6, 7)) /\ s[8] = "-"
  /\ AllDigits(SubSeq(s, 9, 10))

C9_IsIsoDateOf(s, today) ==
  /\ Len(s) = 10
  /\ AllDigits(SubSeq(s, 1, 4)) /\ int(SubSeq(s, 1, 4)) = today.y
  /\ s[5] = "-"
  /\ AllDigits(SubSeq(s, 6, 7)) /\ int(SubSeq(s, 6, 7)) = today.m
  /\ s[8] = "-"
  /\ AllDigits(SubSeq(s, 9, 10)) /\ int(SubSeq(s, 9, 10)) = today.d

C9_BumpModelVersion ==
  (bumpOp = "model" /\ bumpIn.t = "str") =>
    IF C9_StartsWithDate(bumpIn.s)
    THEN /\ Len(bumpOut) = Len(bumpIn.s)
         /\ C9_IsIsoDateOf(SubSeq(bumpOut, 1, 10), bumpToday)
         /\ \A i \in 11..Len(bumpIn.s) : bumpOut[i] = bumpIn.s[i]
    ELSE bumpOut = _bump_semver(bumpIn)

\* a date-prefixed argument with a suffix has been bumped to another date
C9_Witness ==
  /\ bumpOp = "model" /\ bumpIn.t = "str"
  /\ C9_StartsWithDate(bumpIn.s) /\ Len(bumpIn.s) > 10
  /\ SubSeq(bumpOut, 1, 10) # SubSeq(bumpIn.s, 1, 10)
  /\ bumpOut[11] = bumpIn.s[11]

(***************************************************************************)
(* Claims about the manifest store and the build                           *)
(***************************************************************************)
BackupCount(bk) == Cardinality({ts \in DOMAIN bk : bk[ts].kind # "nofile"})

\* C3: every save made while a file exists at the path produces exactly one
\* new backup file holding the pre-existing content, and no backup made by an
\* earlier save is overwritten or changed, also when two saves fall in the
\* same second.
C3_OneNewBackupPerSave ==
  [][(writeTick' # writeTick /\ manifest.kind # "nofile") =>
       /\ \E ts \in DOMAIN backups :
            backups[ts].kind = "nofile" /\ backups'[ts] = manifest
       /\ BackupCount(backups') = BackupCount(backups) + 1
       /\ \A ts \in DOMAIN backups :
            backups[ts].kind # "nofile" => backups'[ts] = backups[ts]]_vars

Persisted(p) == build[p].wrote /\ build[p].pc \in {"zip", "tool", "done"}

C4_KeyUnchanged(p, key) ==
  build[p].before.obj[key].t # "absent" =>
    manifest.obj[key] = build[p].before.obj[key]

\* C4: a version whose bump was not requested passes through unchanged: the
\* value stored in the manifest after the build, under every version key
\* present, equals the value stored before the build.
C4_UnrequestedVersionUnchanged ==
  \A p \in Procs : Persisted(p) =>
    /\ ~build[p].bumpApp =>
         C4_KeyUnchanged(p, "appVersion") /\ C4_KeyUnchanged(p, "app_version")
    /\ ~build[p].bumpModel =>
         C4_KeyUnchanged(p, "modelVersion") /\ C4_KeyUnchanged(p, "model_version")

\* C5: when the packaging tool fails (non-zero exit, or it cannot be
\* launched) the build answers ok false and nothing committed is rolled
\* back: the manifest file holds the envelope and the versions this build
\* wrote, the backup of what it overwrote and the manifest-only archive
\* remain; the build answers ok only when the tool exited with 0.
C5_FailedToolKeepsCommits ==
  \A p \in Procs : build[p].pc = "done" =>
    /\ build[p].res.ok => (build[p].nTool = 1 /\ build[p].tool = "exit0")
    /\ build[p].tool \in {"nonzero", "launch_error"} =>
         /\ ~build[p].res.ok
         /\ manifest = build[p].ab
         /\ manifest.obj.github.token_enc = PyStr(build[p].enc)
         /\ manifest.obj.tokens.github_enc = PyStr(build[p].enc)
         /\ _extract_versions(manifest.obj) = build[p].next
         /\ \E ts \in DOMAIN backups : backups[ts] = build[p].before
         /\ appbootZip = manifest

\* a build whose tool exited non-zero has returned, the manifest advanced
C5_Witness ==
  \E p \in Procs :
    /\ build[p].pc = "done" /\ build[p].tool = "nonzero"
    /\ build[p].bumpApp /\ manifest # build[p].before
    /\ build[p].next.app # build[p].cur.app

\* C6: a build called while the manifest file or the packaging tool does not
\* exist fails with a not-found error before any mutation: no manifest
\* write, no backup, no archive, no encryption, no tool run.
C6_NotFoundBeforeMutation ==
  \A p \in Procs : (build[p].missing /\ build[p].pc # "idle") =>
    /\ build[p].pc = "done"
    /\ ~build[p].res.ok
    /\ build[p].res.error \in {"payload.sh not found", "appboot.json not found"}
    /\ ~build[p].wrote /\ ~build[p].zipped
    /\ build[p].nEnc = 0 /\ build[p].nTool = 0
    /\ payloadExists => (manifest = NoFile /\ appbootZip = NoFile
                           /\ BackupCount(backups) = 0)

\* a build was called with the tool present and no manifest file
C6_Witness ==
  \E p \in Procs :
    /\ build[p].missing /\ build[p].pc = "done" /\ payloadExists
    /\ build[p].res.error = "appboot.json not found"

\* C7: after every build that persists the manifest, github.token_enc and
\* tokens.github_enc hold the one envelope this build's single encryption
\* produced and github.token is the empty string, whatever the manifest
\* held before.
C7_EnvelopeInBothPlaces ==
  \A p \in Procs : Persisted(p) =>
    /\ manifest.kind = "dict"
    /\ manifest.obj.github.t = "dict" /\ manifest.obj.tokens.t = "dict"
    /\ manifest.obj.github.token_enc = PyStr(build[p].enc)
    /\ manifest.obj.tokens.github_enc = PyStr(build[p].enc)
    /\ manifest.obj.github.token = PyStr(<<>>)
    /\ build[p].nEnc = 1
    /\ build[p].enc = _aesgcm_encrypt(encCalls)
    /\ build[p].enc # OldEnvelope

\* a build persisted over a manifest that held a plaintext token and an
\* earlier envelope
C7_Witness ==
  \E p \in Procs :
    /\ Persisted(p)
    /\ build[p].before.obj.github.token = PyStr(PlainToken)
    /\ build[p].before.obj.github.token_enc = PyStr(OldEnvelope)
    /\ build[p].before.obj.tokens.github_enc = PyStr(OldEnvelope)

(***************************************************************************)
(* Claims about the preview pipeline                                       *)
(***************************************************************************)
\* C1: api_preview_read never reads a file outside the workspace root
\* (UNZIP_DIR): whatever the name, the request is rejected or served from a
\* path inside the workspace root.
C1_ReadStaysInWorkspace ==
  read.opened.set => IsUnder(read.opened.path, UNZIP_DIR)

\* C2: the extraction step of api_preview_fetch never writes a file outside
\* the workspace root, whatever the entry names of the archive.
C2_ExtractStaysInWorkspace ==
  \A p \in Procs : \A path \in fetch[p].extracted : IsUnder(path, UNZIP_DIR)

TimedOut(p) == fetch[p].pc = "done" /\ fetch[p].tool = "hang"

\* C10: a fetch whose decrypt step exceeds the timeout does not hang: it
\* returns a failure that reports a decrypt timeout, distinct from the
\* failure reported for a non-zero exit; no entry is extracted and the
\* workspace holds no extracted entry of that attempt.
C10_DecryptTimeout ==
  /\ [](\A p \in Procs :
          /\ TimedOut(p) =>
               /\ ~fetch[p].res.ok
               /\ fetch[p].res.error = "decrypt timeout"
               /\ fetch[p].extracted = {} /\ fetch[p].entries = <<>>
               /\ \A f \in files :
                    IsUnder(f.path, UNZIP_DIR) => f.data.gen # fetch[p].gen
          /\ (fetch[p].pc = "done" /\ fetch[p].tool = "nonzero") =>
               fetch[p].res.error = "decrypt failed")
  /\ \A p \in Procs :
       (fetch[p].pc = "decrypting" /\ fetch[p].tool = "hang") ~> TimedOut(p)

\* a fetch whose child process hung has returned with status 500, and it
\* was not the first fetch of the run
C10_Witness ==
  \E p \in Procs : TimedOut(p) /\ fetch[p].gen > 1 /\ fetch[p].res.status = 500

\* no fetch is between its reset and its answer
FetchesAtRest == \A p \in Procs : fetch[p].pc \in {"idle", "done"}

\* C11: the workspace never holds state of a prior fetch: once a fetch has
\* answered, whatever its outcome, every file in the workspace was produced
\* by the most recent fetch, and api_preview_read returns no entry that an
\* earlier fetch extracted.
C11_NoStateOfPriorFetch ==
  (fetchCalls > 0 /\ FetchesAtRest) =>
    /\ \A f \in files : IsUnder(f.path, PREVIEW_DIR) => f.data.gen = fetchCalls
    /\ (read.status = 200 /\ IsUnder(read.opened.path, UNZIP_DIR)) =>
         read.data.gen = fetchCalls

DownloadFailed(p) == fetch[p].pc = "done" /\ fetch[p].res.error = "download error"

\* C12: a fetch whose download fails (an unreachable URL) answers with a
\* failure, the decryption tool has not been invoked, and the workspace is
\* as the reset left it: no downloaded file, no archive, no extracted entry.
C12_FailedDownloadLeavesEmptyWorkspace ==
  \A p \in SeqProcs : DownloadFailed(p) =>
    /\ ~fetch[p].res.ok /\ fetch[p].res.status = 500
    /\ fetch[p].tool = "none"
    /\ fetch[p].entries = <<>> /\ fetch[p].extracted = {}
    /\ \A f \in files : ~IsUnder(f.path, PREVIEW_DIR)

\* a download has failed in a fetch that followed another fetch
C12_Witness ==
  \E p \in SeqProcs : DownloadFailed(p) /\ fetch[p].gen > 1

\* C14: api_preview_read of "../secret.json" and of "/etc/passwd" both fail
\* with the invalid-name rejection, not with not-found or a parse error, and
\* neither touches the file system outside the workspace.
C14_TraversalNamesRejected ==
  (read.called /\ read.name \in {SECRET_NAME, PASSWD_NAME}) =>
    /\ read.status = 400 /\ read.error = "invalid name"
    /\ read.probed.set => IsUnder(read.probed.path, UNZIP_DIR)
    /\ ~read.opened.set

\* the spelling _extract_versions takes a version from
C15_ReadFrom(camel, snake) ==
  IF truthy(camel) THEN "camel" ELSE IF truthy(snake) THEN "snake" ELSE "none"

C15_FieldPreserved(camel0, snake0, camel1, snake1, next, back) ==
  /\ C15_ReadFrom(camel0, snake0) = "camel" => camel1 = PyStr(next)
  /\ C15_ReadFrom(camel0, snake0) = "snake" => snake1 = PyStr(next)
  /\ (camel0.t = "absent" /\ snake0.t # "absent") =>
       camel1.t = "absent" /\ snake1 = PyStr(next)
  /\ (camel0.t = "absent" /\ snake0.t = "absent") =>
       camel1 = PyStr(next) /\ snake1.t = "absent"
  /\ back = next

\* C15: a build writes each next version under the key spelling it read the
\* current version from; a manifest with only the snake_case key keeps only
\* that key, a manifest with neither key gets the camelCase key, and reading
\* the version back after the write gives the value written.
C15_KeySpellingPreserved ==
  \A p \in SeqProcs : Persisted(p) =>
    LET b == build[p].before.obj
        m == manifest.obj
        back == _extract_versions(m)
    IN /\ C15_FieldPreserved(b.appVersion, b.app_version, m.appVersion,
                             m.app_version, build[p].next.app, back.app)
       /\ C15_FieldPreserved(b.modelVersion, b.model_version, m.modelVersion,
                             m.model_version, build[p].next.model, back.model)

EncryptFailed(p) ==
  build[p].pc = "done" /\ build[p].res.error = "Encrypt token failed"

\* what one build has done so far respects the order of the steps
C16_Order(b) ==
  /\ b.nEnc <= 1 /\ b.nTool <= 1
  /\ b.wrote => b.nEnc = 1
  /\ b.zipped => b.wrote
  /\ b.nTool = 1 => b.wrote /\ b.zipped
  /\ (b.pc = "done" /\ b.res.error = "Encrypt token failed") =>
       ~b.wrote /\ ~b.zipped /\ b.nTool = 0
  /\ (b.pc = "done" /\ b.res.error = "Failed to prep build") => b.nTool = 0

\* C16: within one build the steps run in the order load, encrypt and
\* inject, bump and persist, write the archive, invoke the tool, and a step
\* that fails aborts the later ones: until encryption has succeeded the
\* manifest, the backups and the archive are left alone; the manifest is
\* persisted only after the encryption, the archive written only after the
\* manifest, and the tool invoked at most once and only after both.
C16_StepOrder ==
  /\ [](\A p \in SeqProcs : C16_Order(build[p]))
  /\ [][\A p \in SeqProcs :
          build[p].pc \in {"load", "encrypt"} =>
            /\ manifest' = manifest
            /\ backups' = backups
            /\ appbootZip' = appbootZip]_vars

\* a build of an existing manifest has stopped at a failed encryption
C16_Witness ==
  \E p \in SeqProcs : EncryptFailed(p) /\ build[p].before.kind = "dict"

\* C17: two concurrent builds that both bump the application version and
\* both persist the manifest lose no update: one of them read the version
\* the other wrote, and the manifest holds the version that one wrote, the
\* initial version bumped twice.
C17_NoLostUpdate ==
  (\A p \in Procs : Persisted(p) /\ build[p].bumpApp) =>
    \E p, q \in Procs :
      /\ p # q
      /\ build[q].cur.app = build[p].next.app
      /\ _extract_versions(manifest.obj).app = build[q].next.app

\* C18: in every interleaving of two concurrent fetches, every entry a
\* successful fetch reports as extracted is in the workspace, as that fetch
\* wrote it, when the fetch returns.
C18_FetchKeepsItsWorkspace ==
  \A p \in Procs :
    (fetch[p].pc = "done" /\ fetch[p].res.ok) =>
      \A path \in fetch[p].extracted :
        HasFile(files, path) /\ FileAt(files, path).data.gen = fetch[p].gen

NoVersionKeys(obj) ==
  /\ obj.appVersion.t = "absent" /\ obj.app_version.t = "absent"
  /\ obj.modelVersion.t = "absent" /\ obj.model_version.t = "absent"

\* C19 as stated: for a manifest with neither spelling of either version
\* field both current versions are the empty string, and a build with both
\* bumps requested writes application version "1.0.0" and a model version
\* that is today's ISO date with no suffix.
C19_DefaultsOfAbsentVersions ==
  \A p \in SeqProcs :
    (Persisted(p) /\ build[p].bumpApp /\ build[p].bumpModel
       /\ build[p].before.kind = "dict" /\ NoVersionKeys(build[p].before.obj)) =>
      /\ build[p].cur = NoVersions
      /\ manifest.obj.appVersion = PyStr(<<"1", ".", "0", ".", "0">>)
      /\ \E clock \in 0..MaxTime :
           manifest.obj.modelVersion = PyStr(_today_str(today_at(clock)))

BuiltFromNoVersions(p) ==
  /\ Persisted(p) /\ build[p].bumpApp /\ build[p].bumpModel
  /\ build[p].before.kind = "dict" /\ NoVersionKeys(build[p].before.obj)

\* C19, amended: for a manifest with neither spelling of either version
\* field both current versions are the empty string, and a build with both
\* bumps requested writes application version "1.0.0" and model version
\* "1.0.0": the empty model version does not start with a date and is
\* bumped as a semantic version.
C19_AbsentVersionsBecomeFirstRelease ==
  \A p \in SeqProcs : BuiltFromNoVersions(p) =>
    /\ build[p].cur = NoVersions
    /\ manifest.obj.appVersion = PyStr(<<"1", ".", "0", ".", "0">>)
    /\ manifest.obj.modelVersion = PyStr(<<"1", ".", "0", ".", "0">>)
    /\ manifest.obj.app_version.t = "absent"
    /\ manifest.obj.model_version.t = "absent"

\* a build with both bumps has persisted a manifest that had no version key
C19_Witness ==
  \E p \in SeqProcs : BuiltFromNoVersions(p) /\ build[p].pc = "done"

\* entry e of the archive of the most recent fetch was extracted by that
\* fetch into the workspace, to the file at target
C20_Extracted(zip, e, target) ==
  /\ zip.gen = fetchCalls
  /\ extracts(e)
  /\ IsUnder(target, UNZIP_DIR)
  /\ HasFile(files, target)
  /\ FileAt(files, target).data.gen = zip.gen

\* C20: extraction and read-back agree: an entry the most recent fetch
\* extracted into the workspace is never answered with invalid-name or
\* not-found when api_preview_read is asked for it by its archive entry name,
\* and is returned when its content is valid JSON.
C20_ExtractedEntriesReadBack ==
  (read.called /\ HasFile(files, ZIP_PATH)) =>
    LET zip == FileAt(files, ZIP_PATH).data
    IN \A i \in 1..Len(zip.entries) :
         LET e == zip.entries[i]
             target == extract_target(e.name)
         IN (read.name = e.name /\ C20_Extracted(zip, e, target)) =>
              /\ read.status # 404
              /\ read.error # "invalid name"
              /\ FileAt(files, target).data.valid =>
                   read.status = 200 /\ read.data = FileAt(files, target).data

====
